---------------------------- MODULE Spec2Model ----------------------------
(***************************************************************************)
(* A model of src/src/turtle_board.rs: TurtleBoard, a set of unit edges on *)
(* the integer lattice with a bounding rectangle that is either kept up to *)
(* date on every insertion (strict) or dropped and recomputed (lazy), and  *)
(* its rendering as text.                                                  *)
(*                                                                         *)
(* Conventions.  Option<T> is a set with at most one element: None is {}   *)
(* and Some(v) is {v}.  A call that panics returns no value; its result is *)
(* reported with panicked = TRUE.  Text is a sequence of characters.       *)
(* Coordinates are i32 in the source; a Range<i32> cannot hold an edge at  *)
(* i32::MAX, so x + 1 and y + 1 of an edge never overflow, and the model   *)
(* uses a small window of the integers.                                    *)
(***************************************************************************)
EXTENDS Integers, Sequences, FiniteSets

\* Range endpoints are drawn from 0..MaxCoord, the coordinate of the line a run
\* lies on from 0..MaxLine.
MaxCoord == 2
MaxLine == 1
\* The number of insertion calls made in one behaviour (in SpecFlip: before
\* the flag is flipped).  The other calls need no bound: they change nothing
\* but the cache, the mode flag and the last result.
MaxInserts == 2

Coord == 0..MaxCoord
Line == 0..MaxLine

---------------------------------------------------------------------------
\* Glyphs (turtle_board.rs lines 7-13), as sequences of characters.
DOT == <<"+">>
DASH_VER == <<"|">>
BLANK_VER == <<" ">>
GAP == <<" ", " ", " ", " ">>
DASH_HOR == <<"-", "-", "-", "-">>
BLANK_HOR == <<" ", " ", " ", " ">>
NEWLINE == <<"\n">>

---------------------------------------------------------------------------
\* Option<T>
None == {}
Some(v) == {v}
unwrap(o) == CHOOSE v \in o : TRUE

\* Iterator::min / Iterator::max over a non-empty collection of integers.
iter_min(S) == CHOOSE m \in S : \A v \in S : m <= v
iter_max(S) == CHOOSE m \in S : \A v \in S : m >= v

\* cmp::min / cmp::max
cmp_min(a, b) == IF a <= b THEN a ELSE b
cmp_max(a, b) == IF a >= b THEN a ELSE b

\* struct Bounds
Bounds(min_x, min_y, max_x, max_y) ==
    [min_x |-> min_x, min_y |-> min_y, max_x |-> max_x, max_y |-> max_y]

\* std::ops::Range<i32> and the values its iterator yields (none when
\* start >= end).
Range(start, end) == [start |-> start, end |-> end]
range_iter(r) == {v \in r.start .. (r.end - 1) : TRUE}
Ranges == {Range(s, e) : s \in Coord, e \in Coord}

\* min_bound with a default rectangle in place of the panic.
min_bound_no_panic(bs) ==
    IF bs = {} THEN Some(Bounds(0, 0, 0, 0))
    ELSE Some(Bounds(iter_min({b.min_x : b \in bs}),
                     iter_min({b.min_y : b \in bs}),
                     iter_max({b.max_x : b \in bs}),
                     iter_max({b.max_y : b \in bs})))

\* Bounds::min_bound over the elements of a slice: None stands for the panic
\* of expect("cannot find bounds for empty board").
min_bound(bs) ==
    IF bs = {} THEN None
    ELSE Some(Bounds(iter_min({b.min_x : b \in bs}),
                     iter_min({b.min_y : b \in bs}),
                     iter_max({b.max_x : b \in bs}),
                     iter_max({b.max_y : b \in bs})))

\* min_bound_2_bounds taking max_y from its first argument alone.
min_bound_2_bounds_lost_max(a, b) ==
    Bounds(cmp_min(a.min_x, b.min_x), cmp_min(a.min_y, b.min_y),
           cmp_max(a.max_x, b.max_x), a.max_y)

\* min_bound_2_bounds counting one past the max_x of its second argument.
min_bound_2_bounds_off_by_one(a, b) ==
    Bounds(cmp_min(a.min_x, b.min_x), cmp_min(a.min_y, b.min_y),
           cmp_max(a.max_x, b.max_x + 1), cmp_max(a.max_y, b.max_y))

\* Bounds::min_bound_2_bounds
min_bound_2_bounds(a, b) ==
    Bounds(cmp_min(a.min_x, b.min_x), cmp_min(a.min_y, b.min_y),
           cmp_max(a.max_x, b.max_x), cmp_max(a.max_y, b.max_y))

\* enum Edge
Vertical(x, y) == [kind |-> "Vertical", x |-> x, y |-> y]
Horizontal(x, y) == [kind |-> "Horizontal", x |-> x, y |-> y]

\* Edge::bounds with the far endpoint of an edge taken as its near corner.
edge_bounds_inverted(e) ==
    IF e.kind = "Vertical"
    THEN Bounds(e.x, e.y + 1, e.x, e.y)
    ELSE Bounds(e.x + 1, e.y, e.x, e.y)

\* Edge::bounds
edge_bounds(e) ==
    IF e.kind = "Vertical"
    THEN Bounds(e.x, e.y, e.x, e.y + 1)
    ELSE Bounds(e.x, e.y, e.x + 1, e.y)

---------------------------------------------------------------------------
\* struct TurtleBoard and TurtleBoard::new / new_lazy / new_strict
new(lazy_bounds) == [edges |-> {}, lazy_bounds |-> lazy_bounds, bounds |-> None]
new_lazy == new(TRUE)
new_strict == new(FALSE)

\* TurtleBoard::compute_bounds; None when min_bound panics.
compute_bounds(self) == min_bound({edge_bounds(e) : e \in self.edges})

\* TurtleBoard::bounds_uncached; None when compute_bounds panics.
bounds_uncached(self) ==
    IF self.bounds # None THEN self.bounds ELSE compute_bounds(self)

\* bounds returning the rectangle without assigning it to the cache.
bounds_not_stored(self) ==
    LET o == bounds_uncached(self)
    IN [self |-> self, ret |-> o, panicked |-> o = None]

\* TurtleBoard::bounds: the board after the call and the rectangle returned.
\* When compute_bounds panics nothing is assigned and nothing is returned.
bounds(self) ==
    LET after == IF self.bounds = None
                 THEN [self EXCEPT !.bounds = compute_bounds(self)]
                 ELSE self
    IN [self |-> after, ret |-> after.bounds, panicked |-> after.bounds = None]

\* expand_to_fit taking the new run's rectangle alone in strict mode.
expand_to_fit_replaces(self, bounds_to_fit) ==
    IF self.lazy_bounds
    THEN [self |-> [self EXCEPT !.bounds = None], panicked |-> FALSE]
    ELSE [self |-> [self EXCEPT !.bounds = Some(bounds_to_fit)], panicked |-> FALSE]

\* expand_to_fit leaving the cache as it is in lazy mode.
expand_to_fit_keeps_cache(self, bounds_to_fit) ==
    IF self.lazy_bounds
    THEN [self |-> self, panicked |-> FALSE]
    ELSE IF self.edges = {}
    THEN [self |-> [self EXCEPT !.bounds = Some(bounds_to_fit)], panicked |-> FALSE]
    ELSE LET r == bounds(self)
         IN IF r.panicked
            THEN [self |-> r.self, panicked |-> TRUE]
            ELSE [self |-> [r.self EXCEPT !.bounds =
                               Some(min_bound_2_bounds(bounds_to_fit, unwrap(r.ret)))],
                  panicked |-> FALSE]

\* TurtleBoard::expand_to_fit: the board after the call, and whether the
\* nested self.bounds() panicked.
expand_to_fit(self, bounds_to_fit) ==
    IF self.lazy_bounds
    THEN [self |-> [self EXCEPT !.bounds = None], panicked |-> FALSE]
    ELSE IF self.edges = {}
    THEN [self |-> [self EXCEPT !.bounds = Some(bounds_to_fit)], panicked |-> FALSE]
    ELSE LET r == bounds(self)
         IN IF r.panicked
            THEN [self |-> r.self, panicked |-> TRUE]
            ELSE [self |-> [r.self EXCEPT !.bounds =
                               Some(min_bound_2_bounds(bounds_to_fit, unwrap(r.ret)))],
                  panicked |-> FALSE]

\* add_vertical_line inserting the end of the range as well.
add_vertical_line_inclusive(self, x, ys) ==
    LET r == expand_to_fit(self, Bounds(x, ys.start, x, ys.end))
    IN IF r.panicked THEN r
       ELSE [self |-> [r.self EXCEPT !.edges =
                          @ \cup {Vertical(x, y) : y \in ys.start .. ys.end}],
             panicked |-> FALSE]

\* TurtleBoard::add_vertical_line
add_vertical_line(self, x, ys) ==
    LET r == expand_to_fit(self, Bounds(x, ys.start, x, ys.end))
    IN IF r.panicked THEN r
       ELSE [self |-> [r.self EXCEPT !.edges =
                          @ \cup {Vertical(x, y) : y \in range_iter(ys)}],
             panicked |-> FALSE]

\* TurtleBoard::add_horizontal_line
add_horizontal_line(self, xs, y) ==
    LET r == expand_to_fit(self, Bounds(xs.start, y, xs.end, y))
    IN IF r.panicked THEN r
       ELSE [self |-> [r.self EXCEPT !.edges =
                          @ \cup {Horizontal(x, y) : x \in range_iter(xs)}],
             panicked |-> FALSE]

\* TurtleBoard::contains_vertical_line: no y of the range is missing.
contains_vertical_line(self, x, ys) ==
    {y \in range_iter(ys) : Vertical(x, y) \notin self.edges} = {}

\* contains_horizontal_line not looking at the first x of the range.
contains_horizontal_line_skips_first(self, xs, y) ==
    {x \in range_iter(xs) \ {xs.start} : Horizontal(x, y) \notin self.edges} = {}

\* TurtleBoard::contains_horizontal_line: no x of the range is missing.
contains_horizontal_line(self, xs, y) ==
    {x \in range_iter(xs) : Horizontal(x, y) \notin self.edges} = {}

---------------------------------------------------------------------------
\* Display::fmt

\* The loop of draw_line_hor from x to max_x: a segment glyph and a DOT per x.
RECURSIVE draw_line_hor_loop(_, _, _, _)
draw_line_hor_loop(self, x, max_x, y) ==
    IF x >= max_x THEN <<>>
    ELSE (IF Horizontal(x, y) \in self.edges THEN DASH_HOR ELSE BLANK_HOR)
         \o DOT \o draw_line_hor_loop(self, x + 1, max_x, y)

\* The closure draw_line_hor
draw_line_hor(self, b, y) == DOT \o draw_line_hor_loop(self, b.min_x, b.max_x, y)

\* add_ver reading the edge of the row above.
add_ver_row_above(self, x, y) ==
    IF Vertical(x, y + 1) \in self.edges THEN DASH_VER ELSE BLANK_VER

\* The closure add_ver
add_ver(self, x, y) == IF Vertical(x, y) \in self.edges THEN DASH_VER ELSE BLANK_VER

\* The loop of draw_line_ver from x to max_x: a vertical glyph and a GAP per x.
RECURSIVE draw_line_ver_loop(_, _, _, _)
draw_line_ver_loop(self, x, max_x, y) ==
    IF x >= max_x THEN <<>>
    ELSE add_ver(self, x, y) \o GAP \o draw_line_ver_loop(self, x + 1, max_x, y)

\* draw_line_ver without the glyph of the last column.
draw_line_ver_no_last(self, b, y) ==
    draw_line_ver_loop(self, b.min_x, b.max_x, y)

\* The closure draw_line_ver
draw_line_ver(self, b, y) ==
    draw_line_ver_loop(self, b.min_x, b.max_x, y) \o add_ver(self, b.max_x, y)

\* The loop of fmt over (min_y..max_y).rev(), from row y downwards.
RECURSIVE fmt_rows(_, _, _)
fmt_rows(self, b, y) ==
    IF y < b.min_y THEN <<>>
    ELSE NEWLINE \o draw_line_ver(self, b, y) \o NEWLINE \o draw_line_hor(self, b, y)
         \o fmt_rows(self, b, y - 1)

\* Display::fmt: the text written, or a panic of bounds_uncached before any
\* character is written.
fmt(self) ==
    LET o == bounds_uncached(self)
    IN IF o = None THEN [panicked |-> TRUE, text |-> <<>>]
       ELSE LET b == unwrap(o)
            IN [panicked |-> FALSE,
                text |-> draw_line_hor(self, b, b.max_y) \o fmt_rows(self, b, b.max_y - 1)]

\* A comparison of every field, as #[derive(PartialEq)] would give.
eq_derived(self, other) ==
    /\ self.edges = other.edges
    /\ self.lazy_bounds = other.lazy_bounds
    /\ self.bounds = other.bounds

\* impl PartialEq for TurtleBoard: eq
eq(self, other) ==
    self.edges = other.edges

---------------------------------------------------------------------------
\* The state: the board under test and the result of the last call made on
\* it; a second board (twin) with its last result, for the specifications
\* that run two boards side by side; and the history of the calls.
VARIABLES board, ret, twin, retTwin, inserts, malformed, extent, added, switched, phase

vars == <<board, ret, twin, retTwin, inserts, malformed, extent, added, switched, phase>>

\* The result of a call: which method, whether it panicked, the rectangle it
\* returned (bounds, bounds_uncached) and the text it wrote (fmt).
Ret(op, panicked, rect, text) ==
    [op |-> op, panicked |-> panicked, bounds |-> rect, text |-> text]
NoRet == Ret("none", FALSE, None, <<>>)

\* The smallest rectangle holding both a and b (bookkeeping for extent).
Hull(a, b) ==
    Bounds(IF a.min_x < b.min_x THEN a.min_x ELSE b.min_x,
           IF a.min_y < b.min_y THEN a.min_y ELSE b.min_y,
           IF a.max_x > b.max_x THEN a.max_x ELSE b.max_x,
           IF a.max_y > b.max_y THEN a.max_y ELSE b.max_y)
Extend(e, b) == IF e = None THEN Some(b) ELSE Some(Hull(unwrap(e), b))

\* History of the insertion calls made on board: inserts (how many),
\* malformed (one had start >= end), extent (the hull of the runs' ends, kept
\* as long as every run was non-empty) and added (the unit edges of the
\* half-open ranges of the runs, noted by each insertion action).
NoteRun(r, b) ==
    /\ inserts' = inserts + 1
    /\ malformed' = (malformed \/ r.start >= r.end)
    /\ extent' = IF malformed \/ r.start >= r.end THEN None ELSE Extend(extent, b)

\* The history before any call.
NoHistory ==
    /\ ret = NoRet
    /\ retTwin = NoRet
    /\ inserts = 0
    /\ malformed = FALSE
    /\ extent = None
    /\ added = {}
    /\ switched = FALSE

---------------------------------------------------------------------------
\* Spec: one board, created in either mode, receiving any calls in any order.

Init ==
    /\ \E lazy \in BOOLEAN : board = new(lazy)
    /\ twin = new_strict
    /\ NoHistory
    /\ phase = "run"

\* board.add_vertical_line(x, ys)
InsertVertical(x, ys) ==
    LET r == add_vertical_line(board, x, ys)
    IN /\ board' = r.self
       /\ ret' = Ret("add_vertical_line", r.panicked, None, <<>>)
       /\ NoteRun(ys, Bounds(x, ys.start, x, ys.end))
       /\ added' = added \cup {Vertical(x, y) : y \in ys.start .. (ys.end - 1)}
       /\ UNCHANGED <<twin, retTwin, switched>>

\* board.add_horizontal_line(xs, y)
InsertHorizontal(xs, y) ==
    LET r == add_horizontal_line(board, xs, y)
    IN /\ board' = r.self
       /\ ret' = Ret("add_horizontal_line", r.panicked, None, <<>>)
       /\ NoteRun(xs, Bounds(xs.start, y, xs.end, y))
       /\ added' = added \cup {Horizontal(x, y) : x \in xs.start .. (xs.end - 1)}
       /\ UNCHANGED <<twin, retTwin, switched>>

AddVerticalLine ==
    /\ inserts < MaxInserts
    /\ \E x \in Line, ys \in Ranges : InsertVertical(x, ys)
    /\ UNCHANGED phase

AddHorizontalLine ==
    /\ inserts < MaxInserts
    /\ \E xs \in Ranges, y \in Line : InsertHorizontal(xs, y)
    /\ UNCHANGED phase

\* board.bounds()
QueryBounds ==
    LET r == bounds(board)
    IN /\ board' = r.self
       /\ ret' = Ret("bounds", r.panicked, r.ret, <<>>)
       /\ UNCHANGED <<twin, retTwin, inserts, malformed, extent, added, switched>>

CallBounds == QueryBounds /\ UNCHANGED phase

\* board.bounds_uncached()
CallBoundsUncached ==
    LET o == bounds_uncached(board)
    IN /\ ret' = Ret("bounds_uncached", o = None, o, <<>>)
       /\ UNCHANGED <<board, twin, retTwin, inserts, malformed, extent, added, switched, phase>>

\* format!("{}", board)
CallFmt ==
    LET r == fmt(board)
    IN /\ ret' = Ret("fmt", r.panicked, None, r.text)
       /\ UNCHANGED <<board, twin, retTwin, inserts, malformed, extent, added, switched, phase>>

\* The result of the containment queries of one orientation: found[<<l, r>>]
\* is the value returned for line l and range r.
ContainsRet(op, found) ==
    [op |-> op, panicked |-> FALSE, bounds |-> None, text |-> <<>>, found |-> found]

\* board.contains_vertical_line(x, ys), for every x and ys.  The method takes
\* &self: it leaves the board as it is.
CallContainsVerticalLine ==
    /\ ret' = ContainsRet("contains_vertical_line",
                          [q \in Line \X Ranges |->
                              contains_vertical_line(board, q[1], q[2])])
    /\ UNCHANGED <<board, twin, retTwin, inserts, malformed, extent, added, switched, phase>>

\* board.contains_horizontal_line(xs, y), for every xs and y.
CallContainsHorizontalLine ==
    /\ ret' = ContainsRet("contains_horizontal_line",
                          [q \in Line \X Ranges |->
                              contains_horizontal_line(board, q[2], q[1])])
    /\ UNCHANGED <<board, twin, retTwin, inserts, malformed, extent, added, switched, phase>>

\* board.lazy_bounds = !board.lazy_bounds (the mode switch, as in
\* tests::test_switch_bounds)
FlipLazyBounds ==
    /\ board' = [board EXCEPT !.lazy_bounds = ~@]
    /\ ret' = NoRet
    /\ switched' = TRUE
    /\ UNCHANGED <<twin, retTwin, inserts, malformed, extent, added>>

SwitchMode == FlipLazyBounds /\ UNCHANGED phase

Next ==
    \/ AddVerticalLine
    \/ AddHorizontalLine
    \/ CallBounds
    \/ CallBoundsUncached
    \/ CallFmt
    \/ SwitchMode

Spec == Init /\ [][Next]_vars

---------------------------------------------------------------------------
\* Two boards receiving the same calls.

\* board.add_vertical_line(x, ys); twin.add_vertical_line(x, ys)
BothAddVerticalLine ==
    /\ phase # "done"
    /\ inserts < MaxInserts
    /\ \E x \in Line, ys \in Ranges :
        LET r == add_vertical_line(board, x, ys)
            t == add_vertical_line(twin, x, ys)
        IN /\ board' = r.self
           /\ twin' = t.self
           /\ ret' = Ret("add_vertical_line", r.panicked, None, <<>>)
           /\ retTwin' = Ret("add_vertical_line", t.panicked, None, <<>>)
           /\ NoteRun(ys, Bounds(x, ys.start, x, ys.end))
           /\ added' = added \cup {Vertical(x, y) : y \in ys.start .. (ys.end - 1)}
    /\ UNCHANGED <<switched, phase>>

\* board.add_horizontal_line(xs, y); twin.add_horizontal_line(xs, y)
BothAddHorizontalLine ==
    /\ phase # "done"
    /\ inserts < MaxInserts
    /\ \E xs \in Ranges, y \in Line :
        LET r == add_horizontal_line(board, xs, y)
            t == add_horizontal_line(twin, xs, y)
        IN /\ board' = r.self
           /\ twin' = t.self
           /\ ret' = Ret("add_horizontal_line", r.panicked, None, <<>>)
           /\ retTwin' = Ret("add_horizontal_line", t.panicked, None, <<>>)
           /\ NoteRun(xs, Bounds(xs.start, y, xs.end, y))
           /\ added' = added \cup {Horizontal(x, y) : x \in xs.start .. (xs.end - 1)}
    /\ UNCHANGED <<switched, phase>>

\* board.bounds(); twin.bounds()
QueryBothBounds ==
    LET r == bounds(board)
        t == bounds(twin)
    IN /\ board' = r.self
       /\ twin' = t.self
       /\ ret' = Ret("bounds", r.panicked, r.ret, <<>>)
       /\ retTwin' = Ret("bounds", t.panicked, t.ret, <<>>)
       /\ UNCHANGED <<inserts, malformed, extent, added, switched>>

BothBounds == QueryBothBounds /\ UNCHANGED phase

\* format!("{}", board); format!("{}", twin)
BothFmt ==
    LET r == fmt(board)
        t == fmt(twin)
    IN /\ ret' = Ret("fmt", r.panicked, None, r.text)
       /\ retTwin' = Ret("fmt", t.panicked, None, t.text)
       /\ UNCHANGED <<board, twin, inserts, malformed, extent, added, switched, phase>>

\* SpecModes: a strict board and a lazy twin (tests::strict_bounds and
\* tests::lazy_bounds run the same calls on each).
InitModes ==
    /\ board = new_strict
    /\ twin = new_lazy
    /\ NoHistory
    /\ phase = "run"

NextModes ==
    \/ BothAddVerticalLine
    \/ BothAddHorizontalLine
    \/ BothBounds
    \/ BothFmt

SpecModes == InitModes /\ [][NextModes]_vars

---------------------------------------------------------------------------
\* SpecSwitch: two strict boards receiving the same insertions; board is
\* switched to lazy and later back to strict; bounds() is called on both at
\* the end.
InitSwitch ==
    /\ board = new_strict
    /\ twin = new_strict
    /\ NoHistory
    /\ phase = "strict"

SwitchToLazy ==
    /\ phase = "strict"
    /\ FlipLazyBounds
    /\ phase' = "lazy"

SwitchToStrict ==
    /\ phase = "lazy"
    /\ FlipLazyBounds
    /\ phase' = "restored"

FinalBounds ==
    /\ phase = "restored"
    /\ QueryBothBounds
    /\ phase' = "done"

NextSwitch ==
    \/ BothAddVerticalLine
    \/ BothAddHorizontalLine
    \/ SwitchToLazy
    \/ SwitchToStrict
    \/ FinalBounds

SpecSwitch == InitSwitch /\ [][NextSwitch]_vars

---------------------------------------------------------------------------
\* SpecFlip: the shape of tests::test_switch_bounds.  Non-empty runs are
\* inserted into a board created in either mode, the flag is flipped,
\* bounds() is called, one more non-empty run is inserted and bounds() is
\* called again.
NonEmptyRanges == {r \in Ranges : r.start < r.end}

InitFlip ==
    /\ \E lazy \in BOOLEAN : board = new(lazy)
    /\ twin = new_strict
    /\ NoHistory
    /\ phase = "build"

FlipBuildVertical ==
    /\ phase = "build"
    /\ inserts < MaxInserts
    /\ \E x \in Line, ys \in NonEmptyRanges : InsertVertical(x, ys)
    /\ UNCHANGED phase

FlipBuildHorizontal ==
    /\ phase = "build"
    /\ inserts < MaxInserts
    /\ \E xs \in NonEmptyRanges, y \in Line : InsertHorizontal(xs, y)
    /\ UNCHANGED phase

FlipSwitch ==
    /\ phase = "build"
    /\ FlipLazyBounds
    /\ phase' = "flipped"

FlipBounds ==
    /\ phase = "flipped"
    /\ QueryBounds
    /\ phase' = "queried"

FlipExtendVertical ==
    /\ phase = "queried"
    /\ \E x \in Line, ys \in NonEmptyRanges : InsertVertical(x, ys)
    /\ phase' = "extended"

FlipExtendHorizontal ==
    /\ phase = "queried"
    /\ \E xs \in NonEmptyRanges, y \in Line : InsertHorizontal(xs, y)
    /\ phase' = "extended"

FlipBoundsAgain ==
    /\ phase = "extended"
    /\ QueryBounds
    /\ phase' = "requeried"

NextFlip ==
    \/ FlipBuildVertical
    \/ FlipBuildHorizontal
    \/ FlipSwitch
    \/ FlipBounds
    \/ FlipExtendVertical
    \/ FlipExtendHorizontal
    \/ FlipBoundsAgain

SpecFlip == InitFlip /\ [][NextFlip]_vars

---------------------------------------------------------------------------
\* SpecNoop: two boards created in the same mode receiving the same calls;
\* board also receives calls whose range is empty or malformed
\* (start >= end), which twin does not receive.
EmptyRanges == {r \in Ranges : r.start >= r.end}

InitNoop ==
    /\ \E lazy \in BOOLEAN : board = new(lazy) /\ twin = new(lazy)
    /\ NoHistory
    /\ phase = "run"

ExtraVerticalLine ==
    \E x \in Line, ys \in EmptyRanges :
        LET r == add_vertical_line(board, x, ys)
        IN /\ board' = r.self
           /\ ret' = Ret("add_vertical_line", r.panicked, None, <<>>)
           /\ malformed' = TRUE
           /\ phase' = "extra"
           /\ UNCHANGED <<twin, retTwin, inserts, extent, added, switched>>

ExtraHorizontalLine ==
    \E xs \in EmptyRanges, y \in Line :
        LET r == add_horizontal_line(board, xs, y)
        IN /\ board' = r.self
           /\ ret' = Ret("add_horizontal_line", r.panicked, None, <<>>)
           /\ malformed' = TRUE
           /\ phase' = "extra"
           /\ UNCHANGED <<twin, retTwin, inserts, extent, added, switched>>

NextNoop ==
    \/ BothAddVerticalLine
    \/ BothAddHorizontalLine
    \/ BothBounds
    \/ ExtraVerticalLine
    \/ ExtraHorizontalLine

SpecNoop == InitNoop /\ [][NextNoop]_vars

---------------------------------------------------------------------------
\* SpecTwice: two boards created in the same mode receiving the same calls
\* and mode switches, except that one run is inserted twice in a row into
\* board and once into twin.
InitTwice ==
    /\ \E lazy \in BOOLEAN : board = new(lazy) /\ twin = new(lazy)
    /\ NoHistory
    /\ phase = "run"

\* board.lazy_bounds = !board.lazy_bounds; twin.lazy_bounds = !twin.lazy_bounds
BothSwitch ==
    /\ board' = [board EXCEPT !.lazy_bounds = ~@]
    /\ twin' = [twin EXCEPT !.lazy_bounds = ~@]
    /\ ret' = NoRet
    /\ retTwin' = NoRet
    /\ switched' = TRUE
    /\ UNCHANGED <<inserts, malformed, extent, added, phase>>

\* board.add_vertical_line(x, ys) twice; twin.add_vertical_line(x, ys) once
TwiceVertical ==
    /\ phase = "run"
    /\ inserts < MaxInserts
    /\ \E x \in Line, ys \in Ranges :
        LET once == add_vertical_line(board, x, ys)
            again == add_vertical_line(once.self, x, ys)
            t == add_vertical_line(twin, x, ys)
        IN /\ board' = again.self
           /\ twin' = t.self
           /\ ret' = Ret("add_vertical_line", once.panicked \/ again.panicked, None, <<>>)
           /\ retTwin' = Ret("add_vertical_line", t.panicked, None, <<>>)
           /\ NoteRun(ys, Bounds(x, ys.start, x, ys.end))
           /\ added' = added \cup {Vertical(x, y) : y \in ys.start .. (ys.end - 1)}
    /\ phase' = "twice"
    /\ UNCHANGED switched

\* board.add_horizontal_line(xs, y) twice; twin.add_horizontal_line(xs, y) once
TwiceHorizontal ==
    /\ phase = "run"
    /\ inserts < MaxInserts
    /\ \E xs \in Ranges, y \in Line :
        LET once == add_horizontal_line(board, xs, y)
            again == add_horizontal_line(once.self, xs, y)
            t == add_horizontal_line(twin, xs, y)
        IN /\ board' = again.self
           /\ twin' = t.self
           /\ ret' = Ret("add_horizontal_line", once.panicked \/ again.panicked, None, <<>>)
           /\ retTwin' = Ret("add_horizontal_line", t.panicked, None, <<>>)
           /\ NoteRun(xs, Bounds(xs.start, y, xs.end, y))
           /\ added' = added \cup {Horizontal(x, y) : x \in xs.start .. (xs.end - 1)}
    /\ phase' = "twice"
    /\ UNCHANGED switched

NextTwice ==
    \/ BothAddVerticalLine
    \/ BothAddHorizontalLine
    \/ BothBounds
    \/ BothSwitch
    \/ TwiceVertical
    \/ TwiceHorizontal

SpecTwice == InitTwice /\ [][NextTwice]_vars

---------------------------------------------------------------------------
\* SpecEq: two boards, each created in a mode of its own, compared with ==.
\* They receive the same runs, and then board may receive one run twice in a
\* row, or one run that twin does not receive; two runs may reach the boards
\* in opposite orders.
InitEq ==
    /\ \E lazy \in BOOLEAN : board = new(lazy)
    /\ \E lazy \in BOOLEAN : twin = new(lazy)
    /\ NoHistory
    /\ phase = "run"

\* board.add_vertical_line(x, ys); board.add_horizontal_line(xs, y);
\* twin.add_horizontal_line(xs, y); twin.add_vertical_line(x, ys)
SwappedLines ==
    /\ phase = "run"
    /\ inserts + 1 < MaxInserts
    /\ \E x \in Line, ys \in Ranges, xs \in Ranges, y \in Line :
        LET r1 == add_vertical_line(board, x, ys)
            r2 == add_horizontal_line(r1.self, xs, y)
            t1 == add_horizontal_line(twin, xs, y)
            t2 == add_vertical_line(t1.self, x, ys)
            bad == malformed \/ ys.start >= ys.end \/ xs.start >= xs.end
        IN /\ board' = r2.self
           /\ twin' = t2.self
           /\ ret' = Ret("add_horizontal_line", r1.panicked \/ r2.panicked, None, <<>>)
           /\ retTwin' = Ret("add_vertical_line", t1.panicked \/ t2.panicked, None, <<>>)
           /\ inserts' = inserts + 2
           /\ malformed' = bad
           /\ extent' = IF bad THEN None
                        ELSE Extend(Extend(extent, Bounds(x, ys.start, x, ys.end)),
                                    Bounds(xs.start, y, xs.end, y))
           /\ added' = added \cup {Vertical(x, v) : v \in ys.start .. (ys.end - 1)}
                             \cup {Horizontal(h, y) : h \in xs.start .. (xs.end - 1)}
    /\ UNCHANGED <<switched, phase>>

\* board.add_vertical_line(x, ys), not made on twin
OnlyBoardVertical ==
    /\ phase = "run"
    /\ inserts < MaxInserts
    /\ \E x \in Line, ys \in Ranges : InsertVertical(x, ys)
    /\ phase' = "differs"

\* board.add_horizontal_line(xs, y), not made on twin
OnlyBoardHorizontal ==
    /\ phase = "run"
    /\ inserts < MaxInserts
    /\ \E xs \in Ranges, y \in Line : InsertHorizontal(xs, y)
    /\ phase' = "differs"

EqRet(equal) ==
    [op |-> "eq", panicked |-> FALSE, bounds |-> None, text |-> <<>>, equal |-> equal]

\* board == twin, the last step of a comparison
CallEq ==
    /\ phase # "compared"
    /\ ret' = EqRet(eq(board, twin))
    /\ phase' = "compared"
    /\ UNCHANGED <<board, twin, retTwin, inserts, malformed, extent, added, switched>>

\* The same run on both boards, while they have received the same runs.
SameVertical == phase = "run" /\ BothAddVerticalLine

SameHorizontal == phase = "run" /\ BothAddHorizontalLine

NextEq ==
    \/ SameVertical
    \/ SameHorizontal
    \/ SwappedLines
    \/ TwiceVertical
    \/ TwiceHorizontal
    \/ OnlyBoardVertical
    \/ OnlyBoardHorizontal
    \/ CallEq

SpecEq == InitEq /\ [][NextEq]_vars

---------------------------------------------------------------------------
\* SpecCache: one board in either mode, with the calls that read or write
\* its cache field: insertions, bounds() and mode switches.
NextCache ==
    \/ AddVerticalLine
    \/ AddHorizontalLine
    \/ CallBounds
    \/ SwitchMode

SpecCache == Init /\ [][NextCache]_vars

---------------------------------------------------------------------------
\* SpecContains: one board in either mode, with insertions, mode switches
\* and the containment queries.
NextContains ==
    \/ AddVerticalLine
    \/ AddHorizontalLine
    \/ CallContainsVerticalLine
    \/ CallContainsHorizontalLine
    \/ SwitchMode

SpecContains == Init /\ [][NextContains]_vars

---------------------------------------------------------------------------
\* The properties.

\* The two lattice points an edge joins.
Endpoints(e) ==
    IF e.kind = "Vertical"
    THEN {<<e.x, e.y>>, <<e.x, e.y + 1>>}
    ELSE {<<e.x, e.y>>, <<e.x + 1, e.y>>}

Least(S) == CHOOSE m \in S : \A v \in S : m <= v
Greatest(S) == CHOOSE m \in S : \A v \in S : v <= m

\* The minimal rectangle enclosing the endpoints of all edges of E; there is
\* none (None) when E is empty.
Enclosing(E) ==
    IF E = {} THEN None
    ELSE LET P == UNION {Endpoints(e) : e \in E}
         IN Some(Bounds(Least({p[1] : p \in P}), Least({p[2] : p \in P}),
                        Greatest({p[1] : p \in P}), Greatest({p[2] : p \in P})))

Observers == {"bounds", "bounds_uncached", "fmt"}
Inserters == {"add_vertical_line", "add_horizontal_line"}

\* C1: on a board created strict and never switched, after any insertion
\* calls (empty and malformed ranges included) and bounds requests, the
\* cached rectangle, when present, is the minimal rectangle enclosing the
\* endpoints of all edges in the edge set.
C1_StrictCacheExact ==
    (~switched /\ ~board.lazy_bounds /\ board.bounds # None)
        => board.bounds = Enclosing(board.edges)

\* C2: a strict board and a lazy board that received the same insertion
\* calls give the same result from bounds(): the same rectangle, or both
\* fail.
C2_ModesAgree ==
    ret.op = "bounds"
        => (ret.panicked = retTwin.panicked /\ ret.bounds = retTwin.bounds)

\* C3: a strict board switched to lazy and later back to strict, at any two
\* points of a sequence of insertions, returns from the final bounds() the
\* same rectangle as a board that received the same insertions and stayed
\* strict.
C3_SwitchRoundTrip ==
    phase = "done"
        => (ret.panicked = retTwin.panicked /\ ret.bounds = retTwin.bounds)

\* C4: after non-empty runs are inserted into a board created in either
\* mode, the flag is flipped and bounds() is called, bounds() returns the
\* minimal rectangle enclosing all edges; after one more non-empty run is
\* inserted it does so again.  (With no run inserted before the flip there
\* is no edge and no such rectangle, and bounds() fails.)
C4_FlipThenBounds ==
    phase \in {"queried", "requeried"}
        => /\ ret.op = "bounds"
           /\ ret.bounds = Enclosing(board.edges)
           /\ ret.panicked = (board.edges = {})

\* C4 witness: a board built strict, flipped to lazy, queried, extended by a
\* run that enlarges the rectangle and queried again.
C4_Witness ==
    /\ phase = "requeried"
    /\ board.lazy_bounds
    /\ inserts = 2
    /\ ret.bounds = Some(Bounds(0, 0, 2, 1))
    /\ Horizontal(1, 1) \in board.edges

\* C5: when every run inserted so far was non-empty, every bounds() call
\* returns the component-wise min/max over the ends of the runs inserted so
\* far (a horizontal run [a,b) at y: x from a to b, y from y to y; a vertical
\* run at x over [c,d): x from x to x, y from c to d).
C5_BoundsIsRunsExtent ==
    (~malformed /\ inserts > 0 /\ ret.op = "bounds")
        => (~ret.panicked /\ ret.bounds = extent)

\* C5 witness: bounds() on a strict board after a horizontal and a vertical
\* run, returning a rectangle larger than the extent of either run.
C5_Witness ==
    /\ ~malformed
    /\ ~switched
    /\ ~board.lazy_bounds
    /\ inserts = 2
    /\ ret.op = "bounds"
    /\ \E e \in board.edges : e.kind = "Horizontal"
    /\ \E e \in board.edges : e.kind = "Vertical"
    /\ ret.bounds = Some(Bounds(0, 0, 2, 2))

\* C6: in every state in which the edge set is empty, bounds(),
\* bounds_uncached() and rendering fail instead of returning a rectangle or
\* writing text.
C6_EmptyFails ==
    (board.edges = {} /\ ret.op \in Observers)
        => (ret.panicked /\ ret.bounds = None /\ ret.text = <<>>)

\* C7: on a newly constructed board (no insertion call made yet) bounds(),
\* bounds_uncached() and rendering each fail, returning no rectangle and
\* writing no text.
C7_FreshFails ==
    (inserts = 0 /\ ret.op \in Observers)
        => (ret.panicked /\ ret.bounds = None /\ ret.text = <<>>)

\* C7 witness: rendering a fresh strict board has failed.
C7_Witness ==
    /\ inserts = 0
    /\ ~switched
    /\ ~board.lazy_bounds
    /\ ret.op = "fmt"
    /\ ret.panicked

\* C8: whenever the lazy flag is true, bounds() returns the rectangle
\* computed from the full current edge set (and fails when there is none),
\* whatever the cache holds.
C8_LazyRecomputes ==
    (board.lazy_bounds /\ ret.op = "bounds")
        => (ret.bounds = Enclosing(board.edges)
            /\ ret.panicked = (board.edges = {}))

\* C9: two boards that hold the same edge set render to the same text,
\* whatever their mode flags and cached rectangles.
C9_RenderSame ==
    (ret.op = "fmt" /\ retTwin.op = "fmt" /\ board.edges = twin.edges)
        => (ret.panicked = retTwin.panicked /\ ret.text = retTwin.text)

\* C10: insertion calls with an empty or malformed range do not fail and
\* change nothing: the edge set, every containment query and a later
\* bounds() are as on a board that did not receive them.
C10_EmptyRunNoop ==
    /\ ret.op \in Inserters => ~ret.panicked
    /\ board.edges = twin.edges
    /\ \A r \in Ranges, l \in Line :
        /\ contains_vertical_line(board, l, r) = contains_vertical_line(twin, l, r)
        /\ contains_horizontal_line(board, r, l) = contains_horizontal_line(twin, r, l)
    /\ (ret.op = "bounds" /\ retTwin.op = "bounds")
        => (ret.panicked = retTwin.panicked /\ ret.bounds = retTwin.bounds)

\* C11: contains_horizontal_line(xs, y) returns true iff Horizontal(x, y) was
\* inserted for every x of [xs.start, xs.end), and contains_vertical_line(x,
\* ys) returns true iff Vertical(x, y) was inserted for every y of [ys.start,
\* ys.end); for an empty range both return true.
C11_ContainsIffAllInserted ==
    /\ ret.op = "contains_horizontal_line"
        => \A l \in Line, r \in Ranges :
              /\ ret.found[<<l, r>>]
                    = (\A x \in Coord : (r.start <= x /\ x < r.end)
                                            => Horizontal(x, l) \in added)
              /\ r.start >= r.end => ret.found[<<l, r>>]
    /\ ret.op = "contains_vertical_line"
        => \A l \in Line, r \in Ranges :
              /\ ret.found[<<l, r>>]
                    = (\A y \in Coord : (r.start <= y /\ y < r.end)
                                            => Vertical(l, y) \in added)
              /\ r.start >= r.end => ret.found[<<l, r>>]

\* C11 witness: after the run [0,1) at y = 0 the query for [0,1) is true, the
\* query for [0,2), which misses one unit edge, is false, and the query for
\* the empty range [2,2) is true.
C11_Witness ==
    /\ ret.op = "contains_horizontal_line"
    /\ added = {Horizontal(0, 0)}
    /\ ret.found[<<0, Range(0, 1)>>]
    /\ ~ret.found[<<0, Range(0, 2)>>]
    /\ ret.found[<<0, Range(2, 2)>>]

\* C12: the edge set is exactly the union of the runs inserted, each run the
\* unit edges of its half-open range; as that union only grows, no edge is
\* ever removed.
C12_EdgesAreRuns == board.edges = added

\* C12 witness: a horizontal and a vertical run of two edges each are in the
\* edge set.
C12_Witness ==
    /\ inserts = 2
    /\ board.edges = {Horizontal(0, 1), Horizontal(1, 1), Vertical(0, 0), Vertical(0, 1)}

\* C13: in any reachable state and either mode, inserting the same run twice
\* in a row yields the same edge set, and the same bounds() result, as
\* inserting it once.
C13_InsertTwice ==
    phase = "twice"
        => /\ board.edges = twin.edges
           /\ ret.op = "bounds"
                => (ret.panicked = retTwin.panicked /\ ret.bounds = retTwin.bounds)

\* C13 witness: bounds() on strict boards right after a non-empty run that
\* widens the rectangle was inserted twice into board and once into twin.
C13_Witness ==
    /\ phase = "twice"
    /\ inserts = 2
    /\ ~malformed
    /\ ~board.lazy_bounds
    /\ ret.op = "bounds"
    /\ ret.bounds = Some(Bounds(0, 0, 2, 1))

\* C14: two boards compare equal iff their edge sets are equal; the lazy
\* flag, the cached rectangle and the order and multiplicity of the
\* insertions that built them do not affect the result of ==.
C14_EqIsEdgeSetEquality ==
    ret.op = "eq" => (ret.equal <=> board.edges = twin.edges)

\* C14 witness: == answers true for a strict board with a cached rectangle
\* and a lazy twin without one, after board received a vertical and a
\* horizontal run in one order and twin received them in the other.
C14_Witness ==
    /\ ret.op = "eq"
    /\ ret.equal
    /\ ~board.lazy_bounds
    /\ twin.lazy_bounds
    /\ board.bounds # None
    /\ twin.bounds = None
    /\ retTwin.op = "add_vertical_line"
    /\ board.edges = {Vertical(0, 0), Horizontal(0, 0)}

\* The lines of a text: the pieces between its newline characters.
RECURSIVE TextLines(_)
TextLines(t) ==
    IF \A i \in 1 .. Len(t) : t[i] # "\n" THEN <<t>>
    ELSE LET i == CHOOSE k \in 1 .. Len(t) :
                      t[k] = "\n" /\ \A j \in 1 .. (k - 1) : t[j] # "\n"
         IN <<SubSeq(t, 1, i - 1)>> \o TextLines(SubSeq(t, i + 1, Len(t)))

\* The rectangle a rendering of board resolves.
Resolved == unwrap(bounds_uncached(board))

\* A rendering was made and its rectangle has min_x <= max_x, min_y <= max_y.
Rendered ==
    /\ ret.op = "fmt"
    /\ ~ret.panicked
    /\ Resolved.min_x <= Resolved.max_x
    /\ Resolved.min_y <= Resolved.max_y

\* Columns of a line: the marker or vertical glyph of point x, and the
\* segment between the points x and x + 1.
PointCol(x) == 5 * (x - Resolved.min_x) + 1
Segment(line, x) == SubSeq(line, PointCol(x) + 1, PointCol(x) + 4)

\* The line numbers of the node line of row y and of the link line under it.
NodeLineOf(y) == 2 * (Resolved.max_y - y) + 1
LinkLineUnder(y) == NodeLineOf(y) + 1

\* The segments of a node line show the horizontal edges of row y.
ShowsRow(line, y) ==
    \A x \in Resolved.min_x .. (Resolved.max_x - 1) :
        Segment(line, x) = DASH_HOR <=> Horizontal(x, y) \in board.edges

\* C15: for a resolved rectangle with min_x <= max_x and min_y <= max_y the
\* rendering has (max_y - min_y + 1) node lines alternating with
\* (max_y - min_y) link lines, starting and ending with a node line, separated
\* by single newlines with no trailing newline; each node line holds
\* (max_x - min_x + 1) markers, each link line as many vertical-glyph
\* positions; the first node line is row max_y and the last is row min_y.
C15_RenderingLayout ==
    Rendered =>
        LET w == Resolved.max_x - Resolved.min_x
            h == Resolved.max_y - Resolved.min_y
            ls == TextLines(ret.text)
        IN /\ Len(ls) = 2 * h + 1
           /\ ret.text[Len(ret.text)] # "\n"
           /\ \A k \in 1 .. Len(ls) :
                /\ Len(ls[k]) = 5 * w + 1
                /\ k % 2 = 1 =>
                     /\ \A j \in 0 .. w : ls[k][5 * j + 1] = "+"
                     /\ Cardinality({c \in 1 .. Len(ls[k]) : ls[k][c] = "+"}) = w + 1
                     /\ \A j \in 0 .. (w - 1) :
                          SubSeq(ls[k], 5 * j + 2, 5 * j + 5) \in {DASH_HOR, BLANK_HOR}
                /\ k % 2 = 0 =>
                     /\ \A j \in 0 .. w : <<ls[k][5 * j + 1]>> \in {DASH_VER, BLANK_VER}
                     /\ \A j \in 0 .. (w - 1) : SubSeq(ls[k], 5 * j + 2, 5 * j + 5) = GAP
           /\ ShowsRow(ls[1], Resolved.max_y)
           /\ ShowsRow(ls[Len(ls)], Resolved.min_y)

\* C15 witness: a rendering of three node lines and two link lines, three
\* points wide, whose top and bottom rows differ.
C15_Witness ==
    /\ Rendered
    /\ Resolved = Bounds(0, 0, 2, 2)
    /\ Len(TextLines(ret.text)) = 5
    /\ Horizontal(0, 0) \in board.edges
    /\ Horizontal(0, 2) \notin board.edges

\* C16: on the node line of row y the segment between the points x and x + 1
\* is DASH_HOR iff Horizontal(x, y) is in the edge set, for min_y <= y <= max_y
\* and min_x <= x < max_x; on the link line directly below the node line of
\* row y the glyph at point x is DASH_VER iff Vertical(x, y - 1) is in the edge
\* set, for min_y < y <= max_y and min_x <= x <= max_x.
C16_GlyphsAreEdges ==
    Rendered =>
        LET ls == TextLines(ret.text)
        IN /\ \A y \in Resolved.min_y .. Resolved.max_y : ShowsRow(ls[NodeLineOf(y)], y)
           /\ \A y \in (Resolved.min_y + 1) .. Resolved.max_y :
                \A x \in Resolved.min_x .. Resolved.max_x :
                    <<ls[LinkLineUnder(y)][PointCol(x)]>> = DASH_VER
                        <=> Vertical(x, y - 1) \in board.edges

\* C16 witness: a rendering of one cell with its right vertical edge and
\* its top horizontal edge present, the left and the bottom one absent.
C16_Witness ==
    /\ Rendered
    /\ Resolved = Bounds(0, 0, 1, 1)
    /\ board.edges = {Vertical(1, 0), Horizontal(0, 1)}

\* In the two formulas of C17 a step that leaves ret'.op = "bounds" is a
\* bounds() call and one that leaves an insertion's name there is an insertion:
\* ret holds the last call, and a step that changes nothing is no call.

WellFormed(b) == b.min_x <= b.max_x /\ b.min_y <= b.max_y

\* Rectangle b holds both endpoints of every edge of E.
Encloses(b, E) ==
    \A e \in E : \A p \in Endpoints(e) :
        /\ b.min_x <= p[1] /\ p[1] <= b.max_x
        /\ b.min_y <= p[2] /\ p[2] <= b.max_y

\* C18: in every reachable state with at least one edge (either mode, any
\* mode switches, any ranges, start > end included) the rectangle returned by
\* bounds() and by bounds_uncached() has min_x <= max_x and min_y <= max_y.
C18_ReturnedRectangleWellFormed ==
    (board.edges # {} /\ ret.op \in {"bounds", "bounds_uncached"})
        => /\ ~ret.panicked
           /\ ret.bounds # None
           /\ WellFormed(unwrap(ret.bounds))

\* C18 witness: bounds_uncached() on a switched board that holds one edge and
\* received a range with start > end.
C18_Witness ==
    /\ ret.op = "bounds_uncached"
    /\ switched
    /\ malformed
    /\ board.bounds # None
    /\ board.edges = {Horizontal(1, 1)}
    /\ ret.bounds = Some(Bounds(0, 1, 2, 2))

\* How many characters of text t are the character c.
CountChar(t, c) == Cardinality({i \in 1 .. Len(t) : t[i] = c})

\* C19: in every reachable state (either mode, any mode switches, any
\* ranges) the cached rectangle, when present, holds both endpoints of every
\* edge of the edge set; hence the rectangle a rendering resolves covers every
\* edge, and the rendering shows every edge of the set: one DASH_VER per
\* vertical edge and one DASH_HOR per horizontal edge.
C19_CacheEnclosesEdges ==
    /\ board.bounds # None => Encloses(unwrap(board.bounds), board.edges)
    /\ (ret.op = "fmt" /\ ~ret.panicked)
         => /\ Encloses(Resolved, board.edges)
            /\ CountChar(ret.text, "|")
                 = Cardinality({e \in board.edges : e.kind = "Vertical"})
            /\ CountChar(ret.text, "-")
                 = Len(DASH_HOR) * Cardinality({e \in board.edges : e.kind = "Horizontal"})

\* C19 witness: a rendering of a board that was strict, turned lazy and
\* received a second run, showing one vertical and two horizontal edges.
C19_Witness ==
    /\ ret.op = "fmt"
    /\ switched
    /\ board.lazy_bounds
    /\ board.edges = {Vertical(1, 1), Horizontal(0, 0), Horizontal(1, 0)}
    /\ CountChar(ret.text, "|") = 1
    /\ CountChar(ret.text, "-") = 8

===========================================================================
